---- MODULE Spec2Model ----
(***************************************************************************)
(* A model of the RSS reader front end: the feed-aggregation state and     *)
(* handlers of the batched RSSPage component (src/unnamed/part_000 and     *)
(* part_002, variants "p0" and "p2"), of the cached App component          *)
(* (src/src/App.tsx, variant "app") and of the first App component         *)
(* (src/unnamed/part_001, variant "v1"), and the pure functions they use.  *)
(*                                                                         *)
(* JavaScript strings that are only compared are TLA+ strings; strings     *)
(* that are converted (category names, descriptions) are sequences of      *)
(* one-character strings.  undefined is the string Undefined; null for an  *)
(* error message is NoError; null for the selected category is NullCat.    *)
(***************************************************************************)
EXTENDS Integers, Sequences, FiniteSets, TLC

VARIABLES
  variant,            \* which component is mounted: "p0", "p2", "app", "v1", or a pure-function harness
  rssConfig,          \* useState(null): [loaded, feeds]
  categories,         \* useState([]): sequence of [id, name]
  feedsByCategory,    \* useState({}): function from the present keys to item lists
  feeds,              \* part_001 only, useState([]): the flat item list
  selectedCategory,   \* useState(null)
  loading,            \* useRSSData.loading / App.loading
  error,              \* useState(null)
  expandedSources,    \* useState(new Set())
  loadingFeeds,       \* useLoadingState: Set of feedConfig.title
  failedFeeds,        \* useLoadingState: array of feedConfig.title
  loadedFeedsCount,   \* useLoadingState
  isSorted,           \* RSSPage.isSorted
  isAddingCustomFeed, \* part_000 only
  configPc,           \* position of loadCategoriesAndConfig: "fetching" or "done"
  runs,               \* the invocations of loadFeedsForCategory / loadRSSFeeds in progress
  fetches,            \* number of feed fetches the runs started so far issue
  started,            \* number of runs started so far
  customAdds,         \* number of custom feeds requested so far (part_000)
  last,               \* history: the handler or callback that ran last
  arg,                \* pure-function harness: the input
  ret                 \* pure-function harness: the output

sysVars == <<rssConfig, categories, feedsByCategory, feeds, selectedCategory, loading,
             error, expandedSources, loadingFeeds, failedFeeds, loadedFeedsCount,
             isSorted, isAddingCustomFeed, configPc, runs, fetches, started, customAdds, last>>
pureVars == <<arg, ret>>
vars == <<variant, sysVars, customAdds, pureVars>>

----------------------------------------------------------------------------
(* Bounds of the model *)

\* the longest string given to stripHtml
MaxLen == 4
\* the number of feed fetches one behaviour may issue
MaxFetches == 4
\* the number of invocations of loadFeedsForCategory / loadRSSFeeds in one behaviour
MaxRuns == 2
\* the number of custom feeds one behaviour may add (part_000)
MaxCustom == 1

\* CONFIG.BATCH_SIZE
BATCH_SIZE == 3

----------------------------------------------------------------------------
(* JavaScript values *)

Undefined == "undefined"
NoError == "null"
NullCat == <<"NULL">>

\* x || y on strings: undefined and '' are falsy
Or(x, y) == IF x \in {Undefined, ""} THEN y ELSE x

Range(s) == {s[i] : i \in 1..Len(s)}

Min(a, b) == IF a < b THEN a ELSE b

RECURSIVE Flatten(_)
Flatten(ss) == IF ss = <<>> THEN <<>> ELSE Head(ss) \o Flatten(Tail(ss))

----------------------------------------------------------------------------
(* utils.stripHtml *)

Whitespace == {" "}

\* String.prototype.replace(/<[^>]*>/g, ''): scanning from the left, a '<' that has
\* a '>' somewhere after it starts a match that ends at the first such '>'.
RECURSIVE ReplaceTags(_)
ReplaceTags(s) ==
  IF s = <<>> THEN <<>>
  ELSE IF Head(s) = "<" /\ \E j \in 2..Len(s) : s[j] = ">"
       THEN LET j == CHOOSE k \in 2..Len(s) :
                       s[k] = ">" /\ \A m \in 2..(k-1) : s[m] # ">"
            IN  ReplaceTags(SubSeq(s, j + 1, Len(s)))
       ELSE <<Head(s)>> \o ReplaceTags(Tail(s))

\* a buggy variant: /<[^<>]*>/g, a tag may not contain '<'
RECURSIVE ReplaceTagsNoNest(_)
ReplaceTagsNoNest(s) ==
  IF s = <<>> THEN <<>>
  ELSE IF Head(s) = "<"
          /\ \E j \in 2..Len(s) : s[j] = ">" /\ \A m \in 2..(j-1) : s[m] \notin {"<", ">"}
       THEN LET j == CHOOSE k \in 2..Len(s) :
                       s[k] = ">" /\ \A m \in 2..(k-1) : s[m] # ">"
            IN  ReplaceTagsNoNest(SubSeq(s, j + 1, Len(s)))
       ELSE <<Head(s)>> \o ReplaceTagsNoNest(Tail(s))

\* String.prototype.trim
RECURSIVE TrimStart(_)
TrimStart(s) == IF s # <<>> /\ Head(s) \in Whitespace THEN TrimStart(Tail(s)) ELSE s

RECURSIVE TrimEnd(_)
TrimEnd(s) ==
  IF s # <<>> /\ s[Len(s)] \in Whitespace THEN TrimEnd(SubSeq(s, 1, Len(s) - 1)) ELSE s

Trim(s) == TrimEnd(TrimStart(s))

stripHtmlNoNest(html) == IF html = <<>> THEN <<>> ELSE Trim(ReplaceTagsNoNest(html))

stripHtml(html) == IF html = <<>> THEN <<>> ELSE Trim(ReplaceTags(html))

\* s has a '<' with a '>' somewhere after it
HasTag(s) == \E i \in 1..Len(s) : s[i] = "<" /\ \E j \in (i+1)..Len(s) : s[j] = ">"

----------------------------------------------------------------------------
(* Category ids: feedConfig.category.toLowerCase().replace(/\s+/g, '-') *)

toLowerCase(s) ==
  [i \in 1..Len(s) |->
     CASE s[i] = "T" -> "t"
       [] s[i] = "N" -> "n"
       [] s[i] = "C" -> "c"
       [] OTHER -> s[i]]

\* replace(/\s+/g, '-'): every maximal run of whitespace becomes one '-'
RECURSIVE ReplaceSpaces(_)
ReplaceSpaces(s) ==
  IF s = <<>> THEN <<>>
  ELSE IF Head(s) \in Whitespace
       THEN <<"-">> \o ReplaceSpaces(TrimStart(s))
       ELSE <<Head(s)>> \o ReplaceSpaces(Tail(s))

CategoryId(name) == ReplaceSpaces(toLowerCase(name))

\* the category list built from the config: one entry per distinct category
\* name (the Map's key), in order of first occurrence
RECURSIVE BuildCategories(_, _)
BuildCategories(cfgFeeds, seen) ==
  IF cfgFeeds = <<>> THEN <<>>
  ELSE LET c == Head(cfgFeeds).category IN
       IF c \in seen
       THEN BuildCategories(Tail(cfgFeeds), seen)
       ELSE <<[id |-> CategoryId(c), name |-> c]>>
            \o BuildCategories(Tail(cfgFeeds), seen \cup {c})

\* a buggy variant: the first category is taken whatever the id
FindCategoryFirst(cats, categoryId) ==
  IF cats = <<>> THEN [found |-> FALSE, category |-> [id |-> NullCat, name |-> NullCat]]
  ELSE [found |-> TRUE, category |-> cats[1]]

\* categories.find(c => c.id === categoryId): the first match, or none
FindCategory(cats, categoryId) ==
  LET hits == {i \in 1..Len(cats) : cats[i].id = categoryId} IN
  IF hits = {} THEN [found |-> FALSE, category |-> [id |-> NullCat, name |-> NullCat]]
  ELSE [found |-> TRUE,
        category |-> cats[CHOOSE i \in hits : \A j \in hits : i <= j]]

\* rssConfig.feeds.filter(f => slug(f.category) === categoryId), as config positions
FeedConfigsOf(cfgFeeds, categoryId) ==
  SelectSeq([i \in 1..Len(cfgFeeds) |-> i],
            LAMBDA i : CategoryId(cfgFeeds[i].category) = categoryId)

\* the built-in category of part_000
CustomId == <<"c", "u", "s", "t", "o", "m">>
CustomCategory == [id |-> CustomId, name |-> <<"z", "d", "y">>]
CustomFeedConfig == [title |-> "customRSS", name |-> "customRSS", category |-> CustomCategory.name]

----------------------------------------------------------------------------
(* fetchRSSFeed: normalisation of a proxy response *)

\* Date.now(), later than every date a feed carries
Now == 9

NoTitle == "untitled"
NoDescription == <<"n", "o", "n", "e">>
NoLink == "#"

\* a JSON value that may be missing, an array of entries or one entry object
Missing == [kind |-> "undefined", val |-> <<>>]
ArrayOf(es) == [kind |-> "array", val |-> es]
ObjectOf(e) == [kind |-> "object", val |-> <<e>>]
Truthy(v) == v.kind # "undefined"

NullResult == [isNull |-> TRUE, items |-> <<>>]
Items(is) == [isNull |-> FALSE, items |-> is]

\* a buggy variant: a single rss.channel.item / feed.entry object is not wrapped
SelectItemsNoWrap(data) ==
  IF data.status = "ok" /\ Truthy(data.items) THEN data.items
  ELSE IF data.isArray THEN ArrayOf(data.arr)
  ELSE IF Truthy(data.rssItem) THEN data.rssItem
  ELSE IF Truthy(data.feedEntry) THEN data.feedEntry
  ELSE IF Truthy(data.items) /\ data.items.kind = "array" THEN data.items
  ELSE ArrayOf(<<>>)

\* the entries the response format branches of part_000 select
SelectItems(data) ==
  IF data.status = "ok" /\ Truthy(data.items) THEN data.items
  ELSE IF data.isArray THEN ArrayOf(data.arr)
  ELSE IF Truthy(data.rssItem)
       THEN (IF data.rssItem.kind = "array" THEN data.rssItem ELSE ArrayOf(data.rssItem.val))
  ELSE IF Truthy(data.feedEntry)
       THEN (IF data.feedEntry.kind = "array" THEN data.feedEntry ELSE ArrayOf(data.feedEntry.val))
  ELSE IF Truthy(data.items) /\ data.items.kind = "array" THEN data.items
  ELSE ArrayOf(<<>>)

SelectFeedTitle(data) ==
  IF data.status = "ok" /\ Truthy(data.items) THEN Or(data.feedTitle, "")
  ELSE IF data.isArray THEN ""
  ELSE IF Truthy(data.rssItem) THEN Or(data.rssTitle, "")
  ELSE IF Truthy(data.feedEntry) THEN Or(data.feedTitle, "")
  ELSE IF Truthy(data.items) /\ data.items.kind = "array" THEN Or(data.title, "")
  ELSE ""

\* the item built from one entry (part_000)
MapItem(item, feedTitle, feedConfig, category) ==
  [title       |-> Or(item.title, NoTitle),
   description |-> stripHtml(IF item.description # <<>> THEN item.description
                             ELSE IF item.content # <<>> THEN item.content
                             ELSE NoDescription),
   link        |-> Or(item.link, Or(item.url, NoLink)),
   pubDate     |-> IF item.pubDate # 0 THEN item.pubDate ELSE Now,
   category    |-> category,
   source      |-> Or(feedTitle, Or(feedConfig.title, feedConfig.name)),
   author      |-> Or(item.author, Or(feedTitle, Or(feedConfig.title, feedConfig.name))),
   feedName    |-> Or(feedConfig.title, feedConfig.name)]

\* part_000 fetchRSSFeed once the proxy has answered (or the request has failed)
fetchRSSFeed(feedConfig, category, response) ==
  IF ~response.ok THEN NullResult
  ELSE LET items == SelectItems(response.data)
           feedTitle == SelectFeedTitle(response.data)
       IN  \* a non-array value has no length: items.length > 0 is false
           IF items.kind = "array" /\ Len(items.val) > 0
           THEN Items([i \in 1..Len(items.val) |->
                         MapItem(items.val[i], feedTitle, feedConfig, category)])
           ELSE NullResult

\* src/src/App.tsx and part_001 fetchRSSFeed: only the rss2json shape, no stripping
fetchRSSFeedApp(feedConfig, category, response) ==
  IF ~response.ok THEN NullResult
  ELSE LET data == response.data IN
       \* data.items.map throws on a non-array and the catch returns null
       IF data.status = "ok" /\ Truthy(data.items) /\ data.items.kind = "array"
       THEN Items([i \in 1..Len(data.items.val) |->
                     LET item == data.items.val[i] IN
                     [title       |-> Or(item.title, NoTitle),
                      description |-> IF item.description # <<>> THEN item.description
                                      ELSE IF item.content # <<>> THEN item.content
                                      ELSE NoDescription,
                      link        |-> Or(item.link, NoLink),
                      pubDate     |-> IF item.pubDate # 0 THEN item.pubDate ELSE Now,
                      category    |-> category,
                      source      |-> Or(data.feedTitle, feedConfig.name),
                      author      |-> Or(item.author, Or(data.feedTitle, feedConfig.name)),
                      feedName    |-> feedConfig.name]])
       ELSE NullResult

----------------------------------------------------------------------------
(* Lists of items *)

\* the loop of addFeedsToCategory: keep the first item of every link
RECURSIVE UniqueByLink(_, _)
UniqueByLink(allFeeds, linkSet) ==
  IF allFeeds = <<>> THEN <<>>
  ELSE IF Head(allFeeds).link \in linkSet
       THEN UniqueByLink(Tail(allFeeds), linkSet)
       ELSE <<Head(allFeeds)>> \o UniqueByLink(Tail(allFeeds), linkSet \cup {Head(allFeeds).link})

\* a buggy variant: the new items are not checked against each other
MergeNoDedup(currentFeeds, newFeeds) ==
  currentFeeds \o SelectSeq(newFeeds, LAMBDA f : \A i \in 1..Len(currentFeeds) : currentFeeds[i].link # f.link)

\* a buggy variant: the new items are put in front of the stored ones
MergeNewFirst(currentFeeds, newFeeds) == UniqueByLink(newFeeds \o currentFeeds, {})

\* the list addFeedsToCategory stores for the category
MergeFeeds(currentFeeds, newFeeds) == UniqueByLink(currentFeeds \o newFeeds, {})

\* Array.prototype.sort((a, b) => b.pubDate - a.pubDate): stable, newest first
RECURSIVE InsertByDate(_, _)
InsertByDate(sorted, f) ==
  IF sorted = <<>> THEN <<f>>
  ELSE IF Head(sorted).pubDate >= f.pubDate
       THEN <<Head(sorted)>> \o InsertByDate(Tail(sorted), f)
       ELSE <<f>> \o sorted

RECURSIVE SortByDate(_)
SortByDate(list) ==
  IF list = <<>> THEN <<>>
  ELSE InsertByDate(SortByDate(SubSeq(list, 1, Len(list) - 1)), list[Len(list)])

\* feedsByCategory[c] || []
FeedsOf(fbc, c) == IF c \in DOMAIN fbc THEN fbc[c] ELSE <<>>

\* { ...prev, [categoryId]: list }
SetKey(fbc, c, list) == [k \in DOMAIN fbc \cup {c} |-> IF k = c THEN list ELSE fbc[k]]

EmptyObject == [k \in {} |-> <<>>]

\* a buggy variant: a later item of a source replaces the group instead of joining it
RECURSIVE GroupReduceReset(_, _)
GroupReduceReset(acc, list) ==
  IF list = <<>> THEN acc
  ELSE LET feed == Head(list) IN
       GroupReduceReset([k \in DOMAIN acc \cup {feed.feedName} |->
                           IF k = feed.feedName THEN <<feed>> ELSE acc[k]], Tail(list))

\* the reduce of groupedFeeds: the accumulator after the items of list
RECURSIVE GroupReduce(_, _)
GroupReduce(acc, list) ==
  IF list = <<>> THEN acc
  ELSE LET feed == Head(list)
           acc1 == IF feed.feedName \in DOMAIN acc THEN acc
                   ELSE [k \in DOMAIN acc \cup {feed.feedName} |->
                           IF k = feed.feedName THEN <<>> ELSE acc[k]]
       IN  GroupReduce([acc1 EXCEPT ![feed.feedName] = Append(@, feed)], Tail(list))

GroupFeeds(list) == GroupReduce(EmptyObject, list)

SourcesOf(list) == {list[i].feedName : i \in 1..Len(list)}

----------------------------------------------------------------------------
(* The environment: the configuration file and the proxy's answers *)

Tech == <<"T", "e", "c", "h">>
TechLower == <<"t", "e", "c", "h">>
News == <<"N", " ", "w">>

FeedConfig(title, name, category) == [title |-> title, name |-> name, category |-> category]

\* one category of four feeds: two batches
ConfigBatch == <<FeedConfig("f1", "f1", Tech), FeedConfig("f2", "f2", Tech),
                 FeedConfig("f3", "f3", Tech), FeedConfig("f4", "f4", Tech)>>
\* two categories; the feed of the second has a name and no title
ConfigTwo == <<FeedConfig("f1", "f1", Tech), FeedConfig(Undefined, "f3", News)>>
\* two category names with the same id
ConfigSameId == <<FeedConfig("f1", "f1", Tech), FeedConfig("f2", "f2", TechLower)>>

Configs == {ConfigBatch, ConfigTwo, ConfigSameId}

Entry(link, pubDate, description) ==
  [title |-> "t", description |-> description, content |-> <<>>, link |-> link,
   url |-> Undefined, pubDate |-> pubDate, author |-> Undefined]

NoData == [isArray |-> FALSE, arr |-> <<>>, status |-> Undefined, items |-> Missing,
           feedTitle |-> Undefined, rssItem |-> Missing, rssTitle |-> Undefined,
           feedEntry |-> Missing, title |-> Undefined]

\* the rss2json answer { status: 'ok', items: [...] }
OkData(es) == [NoData EXCEPT !.status = "ok", !.items = ArrayOf(es)]

HttpFail == [ok |-> FALSE, data |-> NoData]
Answer(data) == [ok |-> TRUE, data |-> data]

\* what a feed carries when it answers: f1 and f2 share a link, f3 repeats one,
\* f4 repeats a link of f1, and the custom feed carries markup
EntriesOf(feedConfig) ==
  LET n == feedConfig.name IN
  CASE n = "f1" -> <<Entry("L1", 3, <<"a">>), Entry("L2", 1, <<"a">>)>>
    [] n = "f2" -> <<Entry("L2", 2, <<"a">>)>>
    [] n = "f3" -> <<Entry("L3", 2, <<"a">>), Entry("L3", 4, <<"a">>)>>
    [] n = "f4" -> <<Entry("L1", 2, <<"a">>)>>
    [] OTHER    -> <<Entry("L9", 5, <<"<", "b", ">", "a">>)>>

\* the answers a feed fetch may get: a failed request, an answer without items,
\* or the feed's entries
Responses(feedConfig) ==
  {HttpFail, Answer(OkData(<<>>)), Answer(OkData(EntriesOf(feedConfig)))}

\* the outcomes of fetch('/rss-feeds.json') that are not a usable config
ConfigFailures == {"network", "not-ok", "bad-json", "no-feeds"}

ErrConfig == "cannot-load-config"
ErrGeneric == "load-error"
ErrNoCategory == "no-such-category"
ErrCustom == "cannot-fetch-custom"

----------------------------------------------------------------------------
(* State updaters of useRSSData and useLoadingState *)

addFeedsToCategory(fbc, categoryId, newFeeds) ==
  SetKey(fbc, categoryId, MergeFeeds(FeedsOf(fbc, categoryId), newFeeds))

clearCategoryFeeds(fbc, categoryId) == SetKey(fbc, categoryId, <<>>)

\* a buggy variant: the failure is not recorded
addFailedFeedDropped(ff, feedName) == ff

addFailedFeed(ff, feedName) == Append(ff, feedName)

\* a buggy variant: a toggle only ever expands
ToggledAlwaysExpanded(expanded, sourceName) == expanded \cup {sourceName}

\* the Set a toggle of sourceName leaves
ToggledSources(expanded, sourceName) ==
  IF sourceName \in expanded THEN expanded \ {sourceName} ELSE expanded \cup {sourceName}

isLoading == loading \/ loadingFeeds # {}

\* Object.values(feedsByCategory).flat().  The keys of a JavaScript object come in
\* insertion order, which the function feedsByCategory does not record: the order
\* taken here is arbitrary.  App.tsx never has a key while nothing is selected.
RECURSIVE FlatValues(_)
FlatValues(fbc) ==
  IF DOMAIN fbc = {} THEN <<>>
  ELSE LET k == CHOOSE x \in DOMAIN fbc : TRUE IN
       fbc[k] \o FlatValues([x \in DOMAIN fbc \ {k} |-> fbc[x]])

\* the list on display: currentFeeds of RSSPage, filteredFeeds of App
currentFeeds ==
  IF variant = "v1"
  THEN (IF selectedCategory # NullCat
        THEN SelectSeq(feeds, LAMBDA feed : feed.category.id = selectedCategory)
        ELSE feeds)
  ELSE IF selectedCategory # NullCat THEN FeedsOf(feedsByCategory, selectedCategory)
  ELSE IF variant = "app" THEN FlatValues(feedsByCategory)
  ELSE <<>>

groupedFeeds == GroupFeeds(currentFeeds)

Last(op, ok, name) ==
  [op |-> op, ok |-> ok, name |-> name, cat |-> NullCat, results |-> <<>>, earlier |-> <<>>]

----------------------------------------------------------------------------
(* Initial state: the component has mounted and its effect has called      *)
(* loadCategoriesAndConfig (loadRSSFeeds in part_001), which awaits the    *)
(* configuration file.                                                     *)

InitSys ==
  /\ rssConfig = [loaded |-> FALSE, feeds |-> <<>>]
  /\ categories = <<>>
  /\ feedsByCategory = EmptyObject
  /\ feeds = <<>>
  /\ selectedCategory = NullCat
  /\ loading = TRUE
  /\ error = NoError
  /\ expandedSources = {}
  /\ loadingFeeds = {}
  /\ failedFeeds = <<>>
  /\ loadedFeedsCount = 0
  /\ isSorted = FALSE
  /\ isAddingCustomFeed = FALSE
  /\ configPc = "fetching"
  /\ runs = <<>>
  /\ fetches = 0
  /\ started = 0
  /\ customAdds = 0
  /\ last = Last("mount", TRUE, "")

----------------------------------------------------------------------------
(* loadFeedsForCategory of RSSPage (part_000, part_002) *)

\* a buggy variant: the slice is one feed too long
BatchOffByOne(n, i) == (i + 1)..Min(i + BATCH_SIZE + 1, n)

\* the positions of feedConfigs.slice(i, i + CONFIG.BATCH_SIZE)
Batch(n, i) == (i + 1)..Min(i + BATCH_SIZE, n)

\* a buggy variant: the first feed of the batch is started once per feed of the batch
BatchSeqRepeat(n, i) == [k \in 1..Cardinality(Batch(n, i)) |-> i + 1]

\* the feeds of one batch, in the order forEach starts them
BatchSeq(n, i) == [k \in 1..Cardinality(Batch(n, i)) |-> i + k]

\* a buggy variant: the delay is taken after every batch
DelayAfterAlways(n, i) == i < n

\* whether the loop awaits the delay after the batch that starts at i
DelayAfter(n, i) == i + BATCH_SIZE < n

TitlesOf(cfgFeeds, feedConfigs, positions) ==
  {cfgFeeds[feedConfigs[p]].title : p \in positions}

\* the run record after the synchronous part of loadFeedsForCategory: the first
\* batch is started and the function awaits the delay or returns
NewPageRun(categoryId) ==
  LET found == FindCategory(categories, categoryId)
      feedConfigs == FeedConfigsOf(rssConfig.feeds, categoryId)
      n == Len(feedConfigs)
  IN  [kind |-> "page", cat |-> categoryId, category |-> found.category,
       feedConfigs |-> feedConfigs, i |-> 0,
       pc |-> IF DelayAfter(n, 0) THEN "delay" ELSE "done",
       pending |-> Batch(n, 0), started |-> BatchSeq(n, 0),
       delays |-> IF DelayAfter(n, 0) THEN 1 ELSE 0, elapsed |-> 0,
       results |-> [p \in {} |-> NullResult], overlapped |-> FALSE, earlier |-> <<>>]

\* whether loadFeedsForCategory(categoryId) gets past its early returns
PageLoads(categoryId) ==
  /\ ~(variant = "p0" /\ categoryId = CustomId)
  /\ rssConfig.loaded

CanFetch(categoryId) ==
  /\ fetches + Len(FeedConfigsOf(rssConfig.feeds, categoryId)) <= MaxFetches
  /\ started < MaxRuns

\* loadFeedsForCategory(categoryId), called by a handler that has already replaced
\* feedsByCategory by fbc and, when callerResets, has called resetLoadingState
PageLoad(categoryId, fbc, callerResets) ==
  IF ~PageLoads(categoryId)
  THEN /\ feedsByCategory' = fbc
       /\ loadingFeeds' = IF callerResets THEN {} ELSE loadingFeeds
       /\ failedFeeds' = IF callerResets THEN <<>> ELSE failedFeeds
       /\ loadedFeedsCount' = IF callerResets THEN 0 ELSE loadedFeedsCount
       /\ UNCHANGED <<error, runs, fetches, started>>
  ELSE LET found == FindCategory(categories, categoryId)
           run == NewPageRun(categoryId)
       IN  /\ feedsByCategory' = clearCategoryFeeds(fbc, categoryId)
           /\ failedFeeds' = <<>>
           /\ loadedFeedsCount' = 0
           /\ IF found.found
              THEN /\ error' = NoError
                   /\ loadingFeeds' = TitlesOf(rssConfig.feeds, run.feedConfigs, run.pending)
                   /\ runs' = Append(runs, run)
                   /\ fetches' = fetches + Len(run.feedConfigs)
                   /\ started' = started + 1
              ELSE /\ error' = ErrNoCategory
                   /\ loadingFeeds' = {}
                   /\ UNCHANGED <<runs, fetches, started>>

PageRuns == {r \in 1..Len(runs) : runs[r].kind = "page"}

\* runs without its r-th entry
RemoveAt(rs, r) == SubSeq(rs, 1, r - 1) \o SubSeq(rs, r + 1, Len(rs))

\* an invocation that has returned and has no fetch in flight leaves the model
Retire(rs, r) == IF rs[r].pc = "done" /\ rs[r].pending = {} THEN RemoveAt(rs, r) ELSE rs

\* the timer of the inter-batch delay fires: the loop starts the next batch
DelayElapsed(r) ==
  /\ variant \in {"p0", "p2"}
  /\ r \in 1..Len(runs)
  /\ runs[r].kind = "page"
  /\ runs[r].pc = "delay"
  /\ LET run == runs[r]
         n == Len(run.feedConfigs)
         i == run.i + BATCH_SIZE
         more == DelayAfter(n, i)
     IN  /\ runs' = [runs EXCEPT ![r] =
                       [run EXCEPT !.i = i,
                                   !.pc = IF more THEN "delay" ELSE "done",
                                   !.pending = @ \cup Batch(n, i),
                                   !.started = @ \o BatchSeq(n, i),
                                   !.delays = IF more THEN @ + 1 ELSE @,
                                   !.elapsed = @ + 1]]
         /\ loadingFeeds' = loadingFeeds \cup TitlesOf(rssConfig.feeds, run.feedConfigs, Batch(n, i))
         /\ last' = Last("delayElapsed", TRUE, "")
  /\ UNCHANGED <<variant, rssConfig, categories, feedsByCategory, feeds, selectedCategory,
                 loading, error, expandedSources, failedFeeds, loadedFeedsCount, isSorted,
                 isAddingCustomFeed, configPc, fetches, started, customAdds, pureVars>>

\* the callback of one feed of a batch resumes after await fetchRSSFeed
FeedDone(r, p, response) ==
  /\ variant \in {"p0", "p2"}
  /\ r \in 1..Len(runs)
  /\ runs[r].kind = "page"
  /\ p \in runs[r].pending
  /\ LET run == runs[r]
         feedConfig == rssConfig.feeds[run.feedConfigs[p]]
         result == fetchRSSFeed(feedConfig, run.category, response)
         ok == ~result.isNull /\ Len(result.items) > 0
     IN  /\ response \in Responses(feedConfig)
         /\ IF ok
            THEN /\ feedsByCategory' = addFeedsToCategory(feedsByCategory, run.cat, result.items)
                 /\ expandedSources' = expandedSources \cup {feedConfig.title}
                 /\ loadedFeedsCount' = loadedFeedsCount + 1
                 /\ UNCHANGED failedFeeds
            ELSE /\ failedFeeds' = addFailedFeed(failedFeeds, feedConfig.title)
                 /\ UNCHANGED <<feedsByCategory, expandedSources, loadedFeedsCount>>
         /\ loadingFeeds' = loadingFeeds \ {feedConfig.title}
         /\ runs' = Retire([runs EXCEPT ![r].pending = @ \ {p}], r)
         /\ last' = [Last("feedDone", ok, feedConfig.name) EXCEPT
                        !.cat = run.cat, !.results = result.items]
  /\ UNCHANGED <<variant, rssConfig, categories, feeds, selectedCategory, loading, error,
                 isSorted, isAddingCustomFeed, configPc, fetches, started, customAdds, pureVars>>

\* the categories the sidebar shows: allCategories of part_000, categories otherwise
CategoryButtons ==
  (IF variant = "p0" THEN {CustomId} ELSE {}) \cup {categories[i].id : i \in 1..Len(categories)}

\* RSSPage.handleCategoryClick
PageCategoryClick(categoryId) ==
  /\ variant \in {"p0", "p2"}
  /\ categoryId \in CategoryButtons
  /\ selectedCategory' = categoryId
  /\ isSorted' = FALSE
  /\ LET cached == FeedsOf(feedsByCategory, categoryId) IN
     IF variant = "p0" /\ categoryId = CustomId
     THEN /\ expandedSources' = IF Len(cached) > 0 THEN SourcesOf(cached) ELSE expandedSources
          /\ UNCHANGED <<feedsByCategory, loadingFeeds, failedFeeds, loadedFeedsCount,
                         error, runs, fetches, started>>
     ELSE IF Len(cached) = 0
     THEN /\ CanFetch(categoryId)
          /\ PageLoad(categoryId, feedsByCategory, FALSE)
          /\ UNCHANGED expandedSources
     ELSE /\ expandedSources' = SourcesOf(cached)
          /\ UNCHANGED <<feedsByCategory, loadingFeeds, failedFeeds, loadedFeedsCount,
                         error, runs, fetches, started>>
  /\ last' = Last("categoryClick", Len(runs') > Len(runs), "")
  /\ UNCHANGED <<variant, rssConfig, categories, feeds, loading, isAddingCustomFeed,
                 configPc, customAdds, pureVars>>

\* RSSPage.handleRefresh; the buttons that call it are enabled only while not loading
\* (and, in part_000, only with a category selected)
PageRefresh ==
  /\ variant \in {"p0", "p2"}
  /\ ~isLoading
  /\ variant = "p0" => selectedCategory # NullCat
  /\ isSorted' = FALSE
  /\ IF selectedCategory # NullCat
     THEN /\ PageLoads(selectedCategory) => CanFetch(selectedCategory)
          /\ PageLoad(selectedCategory, EmptyObject, TRUE)
     ELSE /\ feedsByCategory' = EmptyObject
          /\ loadingFeeds' = {}
          /\ failedFeeds' = <<>>
          /\ loadedFeedsCount' = 0
          /\ UNCHANGED <<error, runs, fetches, started>>
  /\ last' = Last("refresh", Len(runs') > Len(runs), "")
  /\ UNCHANGED <<variant, rssConfig, categories, feeds, selectedCategory, loading,
                 expandedSources, isAddingCustomFeed, configPc, customAdds, pureVars>>

\* whether the name setFeedsByCategory is bound where handleSortByTime uses it:
\* RSSPage takes it neither from useRSSData (which does not return it) nor from
\* anywhere else, so the call throws a ReferenceError
SetFeedsByCategoryInScope == FALSE

\* RSSPage.handleSortByTime; its button is rendered while the selected category has
\* groups and is enabled while isSorted is false
PageSortByTime ==
  /\ variant \in {"p0", "p2"}
  /\ selectedCategory # NullCat
  /\ DOMAIN groupedFeeds # {}
  /\ ~isSorted
  /\ IF SetFeedsByCategoryInScope
     THEN /\ feedsByCategory' = SetKey(feedsByCategory, selectedCategory,
                                       SortByDate(FeedsOf(feedsByCategory, selectedCategory)))
          /\ isSorted' = TRUE
     ELSE UNCHANGED <<feedsByCategory, isSorted>>
  /\ last' = Last("sortByTime", SetFeedsByCategoryInScope, "")
  /\ UNCHANGED <<variant, rssConfig, categories, feeds, selectedCategory, loading, error,
                 expandedSources, loadingFeeds, failedFeeds, loadedFeedsCount,
                 isAddingCustomFeed, configPc, runs, fetches, started, customAdds, pureVars>>

\* whether the grouped list is rendered, so that a source header can be clicked
ListShown == ~isLoading /\ (variant = "p0" => selectedCategory # NullCat)

\* the items the page renders: the isLoading branch renders a spinner and the names
\* of the feeds in flight, no item
DisplayedItems == IF ListShown THEN currentFeeds ELSE <<>>

\* RSSPage.toggleSourceWithScroll (the scroll target is not part of the model)
PageToggleSource(sourceName) ==
  /\ variant \in {"p0", "p2"}
  /\ ListShown
  /\ sourceName \in DOMAIN groupedFeeds
  /\ expandedSources' = ToggledSources(expandedSources, sourceName)
  /\ last' = Last("toggleSource", sourceName \in expandedSources, sourceName)
  /\ UNCHANGED <<variant, rssConfig, categories, feedsByCategory, feeds, selectedCategory,
                 loading, error, loadingFeeds, failedFeeds, loadedFeedsCount, isSorted,
                 isAddingCustomFeed, configPc, runs, fetches, started, customAdds, pureVars>>

\* the groupedFeeds the toggleAllSources callback sees: part_000 lists groupedFeeds
\* among the callback's dependencies, part_002 lists none and keeps the callback of
\* the first render, whose groupedFeeds is empty
ToggleAllKeys == IF variant = "p2" THEN {} ELSE DOMAIN groupedFeeds

\* toggleAllSources of all variants
ToggleAllResult(expanded, allSources) ==
  IF Cardinality(expanded) = Cardinality(allSources) THEN {} ELSE allSources

PageToggleAll ==
  /\ variant \in {"p0", "p2"}
  /\ variant = "p0" => selectedCategory # NullCat
  /\ expandedSources' = ToggleAllResult(expandedSources, ToggleAllKeys)
  /\ last' = Last("toggleAll", TRUE, "")
  /\ UNCHANGED <<variant, rssConfig, categories, feedsByCategory, feeds, selectedCategory,
                 loading, error, loadingFeeds, failedFeeds, loadedFeedsCount, isSorted,
                 isAddingCustomFeed, configPc, runs, fetches, started, customAdds, pureVars>>

\* part_000 handleAddCustomFeed up to its await; the button and the Enter key call
\* it only with a URL typed and no addition in progress
CustomRuns == {r \in 1..Len(runs) : runs[r].kind = "custom"}

AddCustomFeed ==
  /\ variant = "p0"
  /\ ~isAddingCustomFeed
  /\ customAdds < MaxCustom
  /\ customAdds' = customAdds + 1
  /\ isAddingCustomFeed' = TRUE
  /\ error' = NoError
  /\ runs' = Append(runs, [kind |-> "custom", cat |-> CustomId, category |-> CustomCategory,
                           feedConfigs |-> <<>>, i |-> 0, pc |-> "await", pending |-> {1},
                           started |-> <<>>, delays |-> 0, elapsed |-> 0,
                           results |-> [p \in {} |-> NullResult], overlapped |-> FALSE, earlier |-> <<>>])
  /\ last' = Last("addCustom", TRUE, "")
  /\ UNCHANGED <<variant, rssConfig, categories, feedsByCategory, feeds, selectedCategory,
                 loading, expandedSources, loadingFeeds, failedFeeds, loadedFeedsCount,
                 isSorted, configPc, fetches, started, pureVars>>

\* part_000 handleAddCustomFeed after await fetchRSSFeed
CustomDone(r, response) ==
  /\ variant = "p0"
  /\ r \in CustomRuns
  /\ runs[r].pc = "await"
  /\ response \in Responses(CustomFeedConfig)
  /\ LET result == fetchRSSFeed(CustomFeedConfig, CustomCategory, response)
         ok == ~result.isNull /\ Len(result.items) > 0
     IN  /\ IF ok
            THEN /\ feedsByCategory' = addFeedsToCategory(feedsByCategory, CustomId, result.items)
                 /\ expandedSources' = expandedSources \cup {CustomFeedConfig.title}
                 /\ loadedFeedsCount' = loadedFeedsCount + 1
                 /\ selectedCategory' = CustomId
                 /\ UNCHANGED error
            ELSE /\ error' = ErrCustom
                 /\ UNCHANGED <<feedsByCategory, expandedSources, loadedFeedsCount,
                                selectedCategory>>
         /\ last' = [Last("customDone", ok, CustomFeedConfig.name) EXCEPT
                        !.cat = CustomId, !.results = result.items]
  /\ isAddingCustomFeed' = FALSE
  /\ runs' = RemoveAt(runs, r)
  /\ UNCHANGED <<variant, rssConfig, categories, feeds, loading, loadingFeeds, failedFeeds,
                 isSorted, configPc, fetches, started, customAdds, pureVars>>

\* a buggy variant: the failure is swallowed and no message is set
ConfigFailedSilently(failure) ==
  /\ failure \in ConfigFailures
  /\ rssConfig' = IF failure = "no-feeds" THEN [loaded |-> TRUE, feeds |-> <<>>] ELSE rssConfig
  /\ error' = error
  /\ loading' = FALSE
  /\ configPc' = "done"
  /\ last' = Last("configFailed", FALSE, failure)

\* the state loadCategoriesAndConfig leaves when the config cannot be used: 'no-feeds'
\* is a parsed answer without a feeds array, stored before forEach throws
ConfigFailed(failure) ==
  /\ failure \in ConfigFailures
  /\ rssConfig' = IF failure = "no-feeds" THEN [loaded |-> TRUE, feeds |-> <<>>] ELSE rssConfig
  /\ error' = IF failure = "not-ok" THEN ErrConfig ELSE ErrGeneric
  /\ loading' = FALSE
  /\ configPc' = "done"
  /\ last' = Last("configFailed", FALSE, failure)

\* loadCategoriesAndConfig of RSSPage after await fetch('/rss-feeds.json')
PageConfigFailed(failure) ==
  /\ variant \in {"p0", "p2"}
  /\ configPc = "fetching"
  /\ ConfigFailed(failure)
  /\ UNCHANGED <<variant, categories, feedsByCategory, feeds, selectedCategory,
                 expandedSources, loadingFeeds, failedFeeds, loadedFeedsCount, isSorted,
                 isAddingCustomFeed, runs, fetches, started, customAdds, pureVars>>

\* loadCategoriesAndConfig with a usable config; in part_002 the effect on categories
\* then selects the first category and loads it
PageConfigLoaded(config) ==
  /\ variant \in {"p0", "p2"}
  /\ configPc = "fetching"
  /\ config \in Configs
  /\ rssConfig' = [loaded |-> TRUE, feeds |-> config]
  /\ categories' = BuildCategories(config, {})
  /\ loading' = FALSE
  /\ configPc' = "done"
  /\ IF variant = "p2"
     THEN LET first == categories'[1].id
              feedConfigs == FeedConfigsOf(config, first)
              n == Len(feedConfigs)
              run == [kind |-> "page", cat |-> first, category |-> categories'[1],
                      feedConfigs |-> feedConfigs, i |-> 0,
                      pc |-> IF DelayAfter(n, 0) THEN "delay" ELSE "done",
                      pending |-> Batch(n, 0), started |-> BatchSeq(n, 0),
                      delays |-> IF DelayAfter(n, 0) THEN 1 ELSE 0, elapsed |-> 0,
                      results |-> [p \in {} |-> NullResult], overlapped |-> FALSE, earlier |-> <<>>]
          IN  /\ selectedCategory' = first
              /\ feedsByCategory' = clearCategoryFeeds(feedsByCategory, first)
              /\ loadingFeeds' = TitlesOf(config, feedConfigs, run.pending)
              /\ failedFeeds' = <<>>
              /\ loadedFeedsCount' = 0
              /\ runs' = Append(runs, run)
              /\ fetches' = fetches + n
              /\ started' = started + 1
              /\ error' = NoError
     ELSE UNCHANGED <<selectedCategory, feedsByCategory, loadingFeeds, failedFeeds,
                      loadedFeedsCount, runs, fetches, started, error>>
  /\ last' = Last("configLoaded", TRUE, "")
  /\ UNCHANGED <<variant, feeds, expandedSources, isSorted, isAddingCustomFeed, customAdds, pureVars>>

NextPage ==
  \/ \E f \in ConfigFailures : PageConfigFailed(f)
  \/ \E c \in Configs : PageConfigLoaded(c)
  \/ \E c \in CategoryButtons : PageCategoryClick(c)
  \/ PageRefresh
  \/ \E r \in PageRuns : DelayElapsed(r)
  \/ \E r \in PageRuns : \E p \in runs[r].pending :
       \E resp \in Responses(rssConfig.feeds[runs[r].feedConfigs[p]]) : FeedDone(r, p, resp)
  \/ \E n \in DOMAIN groupedFeeds : PageToggleSource(n)
  \/ PageToggleAll
  \/ PageSortByTime
  \/ AddCustomFeed
  \/ \E r \in CustomRuns : \E resp \in Responses(CustomFeedConfig) : CustomDone(r, resp)

InitPage == variant \in {"p0", "p2"} /\ InitSys /\ arg = <<>> /\ ret = <<>>

SpecPage == InitPage /\ [][NextPage]_vars

----------------------------------------------------------------------------
(* src/src/App.tsx *)

AppRuns == {r \in 1..Len(runs) : runs[r].kind = "app"}

\* allFeeds after the forEach over the settled results: the items of every
\* fulfilled, non-null result, in feed order
CollectFeeds(results) ==
  Flatten([p \in 1..Len(results) |-> IF results[p].isNull THEN <<>> ELSE results[p].items])

\* a buggy variant: the new list is merged into the cached one
StoreMerged(fbc, categoryId, allFeeds) == SetKey(fbc, categoryId, FeedsOf(fbc, categoryId) \o allFeeds)

\* setFeedsByCategory(prev => ({ ...prev, [categoryId]: allFeeds }))
StoreFeeds(fbc, categoryId, allFeeds) == SetKey(fbc, categoryId, allFeeds)

\* the runs left when run r has stored list: r leaves, and the runs of the same
\* category still in flight remember that a run finished before them
AfterFinish(rs, r, list) ==
  RemoveAt([q \in 1..Len(rs) |->
              IF q # r /\ rs[q].kind = rs[r].kind /\ rs[q].cat = rs[r].cat
              THEN [rs[q] EXCEPT !.overlapped = TRUE, !.earlier = list]
              ELSE rs[q]], r)

\* App.loadFeedsForCategory(categoryId) up to await Promise.allSettled, called by a
\* handler that has already replaced feedsByCategory by fbc
AppLoad(categoryId, fbc) ==
  IF ~rssConfig.loaded
  THEN /\ feedsByCategory' = fbc
       /\ UNCHANGED <<loading, error, expandedSources, runs, fetches, started>>
  ELSE LET found == FindCategory(categories, categoryId)
           feedConfigs == FeedConfigsOf(rssConfig.feeds, categoryId)
           n == Len(feedConfigs)
       IN  IF ~found.found
           THEN /\ feedsByCategory' = fbc
                /\ error' = ErrNoCategory
                /\ loading' = FALSE
                /\ UNCHANGED <<expandedSources, runs, fetches, started>>
           ELSE IF n = 0
           THEN \* Promise.allSettled([]) is settled at once
                /\ feedsByCategory' = StoreFeeds(fbc, categoryId, <<>>)
                /\ expandedSources' = {}
                /\ error' = NoError
                /\ loading' = FALSE
                /\ UNCHANGED <<runs, fetches, started>>
           ELSE /\ feedsByCategory' = fbc
                /\ loading' = TRUE
                /\ error' = NoError
                /\ runs' = Append(runs,
                     [kind |-> "app", cat |-> categoryId, category |-> found.category,
                      feedConfigs |-> feedConfigs, i |-> 0, pc |-> "await",
                      pending |-> 1..n, started |-> [k \in 1..n |-> k],
                      delays |-> 0, elapsed |-> 0,
                      results |-> [p \in {} |-> NullResult],
                      overlapped |-> FALSE, earlier |-> <<>>])
                /\ fetches' = fetches + n
                /\ started' = started + 1
                /\ UNCHANGED expandedSources

\* one fetchRSSFeed of a run settles; when it is the last one, Promise.allSettled
\* resolves and loadFeedsForCategory runs to its end
AppFeedDone(r, p, response) ==
  /\ variant = "app"
  /\ r \in AppRuns
  /\ p \in runs[r].pending
  /\ LET run == runs[r]
         feedConfig == rssConfig.feeds[run.feedConfigs[p]]
         result == fetchRSSFeedApp(feedConfig, run.category, response)
         results == [q \in DOMAIN run.results \cup {p} |->
                       IF q = p THEN result ELSE run.results[q]]
         allFeeds == SortByDate(CollectFeeds(results))
     IN  /\ response \in Responses(feedConfig)
         /\ IF run.pending = {p}
            THEN /\ feedsByCategory' = StoreFeeds(feedsByCategory, run.cat, allFeeds)
                 /\ expandedSources' = SourcesOf(allFeeds)
                 /\ loading' = FALSE
                 /\ runs' = AfterFinish(runs, r, allFeeds)
                 /\ last' = [op |-> "loadDone", ok |-> run.overlapped, name |-> feedConfig.name,
                             cat |-> run.cat, results |-> results, earlier |-> run.earlier]
            ELSE /\ runs' = [runs EXCEPT ![r].pending = @ \ {p}, ![r].results = results]
                 /\ last' = Last("feedDone", ~result.isNull /\ Len(result.items) > 0,
                                 feedConfig.name)
                 /\ UNCHANGED <<feedsByCategory, expandedSources, loading>>
  /\ UNCHANGED <<variant, rssConfig, categories, feeds, selectedCategory, error, loadingFeeds,
                 failedFeeds, loadedFeedsCount, isSorted, isAddingCustomFeed, configPc,
                 fetches, started, customAdds, pureVars>>

\* a buggy variant: an empty cached list counts as not cached
CachedNonEmpty(fbc, categoryId) == categoryId \in DOMAIN fbc /\ fbc[categoryId] # <<>>

\* feedsByCategory[categoryId] is truthy: the key is present (an empty array is
\* truthy too)
Cached(fbc, categoryId) == categoryId \in DOMAIN fbc

\* App.handleCategoryClick; the sidebar has one button per category
AppCategoryClick(categoryId) ==
  /\ variant = "app"
  /\ categoryId \in CategoryButtons
  /\ selectedCategory' = categoryId
  /\ IF ~Cached(feedsByCategory, categoryId)
     THEN /\ CanFetch(categoryId)
          /\ AppLoad(categoryId, feedsByCategory)
     ELSE /\ expandedSources' = SourcesOf(feedsByCategory[categoryId])
          /\ UNCHANGED <<feedsByCategory, loading, error, runs, fetches, started>>
  /\ last' = Last("categoryClick", Len(runs') > Len(runs), "")
  /\ UNCHANGED <<variant, rssConfig, categories, feeds, loadingFeeds, failedFeeds,
                 loadedFeedsCount, isSorted, isAddingCustomFeed, configPc, customAdds,
                 pureVars>>

\* App.handleRefresh; both buttons that call it need loading to be false
\* (loadAllFeeds returns at once)
AppRefresh ==
  /\ variant = "app"
  /\ ~loading
  /\ IF selectedCategory = NullCat
     THEN /\ feedsByCategory' = EmptyObject
          /\ UNCHANGED <<loading, error, expandedSources, runs, fetches, started>>
     ELSE /\ rssConfig.loaded => CanFetch(selectedCategory)
          /\ AppLoad(selectedCategory, EmptyObject)
  /\ last' = Last("refresh", Len(runs') > Len(runs), "")
  /\ UNCHANGED <<variant, rssConfig, categories, feeds, selectedCategory, loadingFeeds,
                 failedFeeds, loadedFeedsCount, isSorted, isAddingCustomFeed, configPc,
                 customAdds, pureVars>>

\* App.toggleSource; the source headers are rendered while loading is false
AppToggleSource(sourceName) ==
  /\ variant \in {"app", "v1"}
  /\ ~loading
  /\ sourceName \in DOMAIN groupedFeeds
  /\ expandedSources' = ToggledSources(expandedSources, sourceName)
  /\ last' = Last("toggleSource", sourceName \in expandedSources, sourceName)
  /\ UNCHANGED <<variant, rssConfig, categories, feedsByCategory, feeds, selectedCategory,
                 loading, error, loadingFeeds, failedFeeds, loadedFeedsCount, isSorted,
                 isAddingCustomFeed, configPc, runs, fetches, started, customAdds, pureVars>>

\* App.toggleAllSources
AppToggleAll ==
  /\ variant \in {"app", "v1"}
  /\ expandedSources' = ToggleAllResult(expandedSources, DOMAIN groupedFeeds)
  /\ last' = Last("toggleAll", TRUE, "")
  /\ UNCHANGED <<variant, rssConfig, categories, feedsByCategory, feeds, selectedCategory,
                 loading, error, loadingFeeds, failedFeeds, loadedFeedsCount, isSorted,
                 isAddingCustomFeed, configPc, runs, fetches, started, customAdds, pureVars>>

\* App.loadCategoriesAndConfig after await fetch('/rss-feeds.json')
AppConfigFailed(failure) ==
  /\ variant = "app"
  /\ configPc = "fetching"
  /\ ConfigFailed(failure)
  /\ UNCHANGED <<variant, categories, feedsByCategory, feeds, selectedCategory,
                 expandedSources, loadingFeeds, failedFeeds, loadedFeedsCount, isSorted,
                 isAddingCustomFeed, runs, fetches, started, customAdds, pureVars>>

AppConfigLoaded(config) ==
  /\ variant = "app"
  /\ configPc = "fetching"
  /\ config \in Configs
  /\ rssConfig' = [loaded |-> TRUE, feeds |-> config]
  /\ categories' = BuildCategories(config, {})
  /\ loading' = FALSE
  /\ configPc' = "done"
  /\ last' = Last("configLoaded", TRUE, "")
  /\ UNCHANGED <<variant, feedsByCategory, feeds, selectedCategory, error, expandedSources,
                 loadingFeeds, failedFeeds, loadedFeedsCount, isSorted, isAddingCustomFeed,
                 runs, fetches, started, customAdds, pureVars>>

NextApp ==
  \/ \E f \in ConfigFailures : AppConfigFailed(f)
  \/ \E c \in Configs : AppConfigLoaded(c)
  \/ \E c \in CategoryButtons : AppCategoryClick(c)
  \/ AppRefresh
  \/ \E r \in AppRuns : \E p \in runs[r].pending :
       \E resp \in Responses(rssConfig.feeds[runs[r].feedConfigs[p]]) : AppFeedDone(r, p, resp)
  \/ \E n \in DOMAIN groupedFeeds : AppToggleSource(n)
  \/ AppToggleAll

InitApp == variant = "app" /\ InitSys /\ arg = <<>> /\ ret = <<>>

SpecApp == InitApp /\ [][NextApp]_vars

----------------------------------------------------------------------------
(* src/unnamed/part_001: one flat list, loaded as a whole *)

V1Runs == {r \in 1..Len(runs) : runs[r].kind = "v1"}

\* categoryMap.get(feedConfig.category)
CategoryOfFeed(feedConfig) == [id |-> CategoryId(feedConfig.category), name |-> feedConfig.category]

\* loadRSSFeeds after await fetch('/rss-feeds.json'), when the config cannot be used
V1ConfigFailed(failure) ==
  /\ variant = "v1"
  /\ configPc = "fetching"
  /\ failure \in ConfigFailures
  /\ error' = IF failure = "not-ok" THEN ErrConfig ELSE ErrGeneric
  /\ loading' = FALSE
  /\ configPc' = "done"
  /\ last' = Last("configFailed", FALSE, failure)
  /\ UNCHANGED <<variant, rssConfig, categories, feedsByCategory, feeds, selectedCategory,
                 expandedSources, loadingFeeds, failedFeeds, loadedFeedsCount, isSorted,
                 isAddingCustomFeed, runs, fetches, started, customAdds, pureVars>>

\* loadRSSFeeds with a usable config, up to await Promise.allSettled
V1ConfigLoaded(config) ==
  /\ variant = "v1"
  /\ configPc = "fetching"
  /\ config \in Configs
  /\ fetches + Len(config) <= MaxFetches
  /\ rssConfig' = [loaded |-> TRUE, feeds |-> config]
  /\ categories' = BuildCategories(config, {})
  /\ configPc' = "done"
  /\ runs' = Append(runs,
       [kind |-> "v1", cat |-> NullCat, category |-> [id |-> NullCat, name |-> NullCat],
        feedConfigs |-> [k \in 1..Len(config) |-> k], i |-> 0, pc |-> "await",
        pending |-> 1..Len(config), started |-> [k \in 1..Len(config) |-> k],
        delays |-> 0, elapsed |-> 0, results |-> [p \in {} |-> NullResult],
        overlapped |-> FALSE, earlier |-> <<>>])
  /\ fetches' = fetches + Len(config)
  /\ started' = started + 1
  /\ last' = Last("configLoaded", TRUE, "")
  /\ UNCHANGED <<variant, feedsByCategory, feeds, selectedCategory, loading, error,
                 expandedSources, loadingFeeds, failedFeeds, loadedFeedsCount, isSorted,
                 isAddingCustomFeed, customAdds, pureVars>>

\* one fetchRSSFeed of loadRSSFeeds settles; after the last one the list is stored
V1FeedDone(r, p, response) ==
  /\ variant = "v1"
  /\ r \in V1Runs
  /\ p \in runs[r].pending
  /\ LET run == runs[r]
         feedConfig == rssConfig.feeds[run.feedConfigs[p]]
         result == fetchRSSFeedApp(feedConfig, CategoryOfFeed(feedConfig), response)
         results == [q \in DOMAIN run.results \cup {p} |->
                       IF q = p THEN result ELSE run.results[q]]
         allFeeds == SortByDate(CollectFeeds(results))
     IN  /\ response \in Responses(feedConfig)
         /\ IF run.pending = {p}
            THEN /\ feeds' = allFeeds
                 /\ expandedSources' = SourcesOf(allFeeds)
                 /\ loading' = FALSE
                 /\ runs' = RemoveAt(runs, r)
                 /\ last' = [op |-> "loadDone", ok |-> FALSE, name |-> feedConfig.name,
                             cat |-> NullCat, results |-> results, earlier |-> <<>>]
            ELSE /\ runs' = [runs EXCEPT ![r].pending = @ \ {p}, ![r].results = results]
                 /\ last' = Last("feedDone", ~result.isNull /\ Len(result.items) > 0,
                                 feedConfig.name)
                 /\ UNCHANGED <<feeds, expandedSources, loading>>
  /\ UNCHANGED <<variant, rssConfig, categories, feedsByCategory, selectedCategory, error,
                 loadingFeeds, failedFeeds, loadedFeedsCount, isSorted, isAddingCustomFeed,
                 configPc, fetches, started, customAdds, pureVars>>

\* handleRefresh: loadRSSFeeds up to await fetch('/rss-feeds.json')
V1Refresh ==
  /\ variant = "v1"
  /\ ~loading
  /\ started < MaxRuns
  /\ loading' = TRUE
  /\ error' = NoError
  /\ configPc' = "fetching"
  /\ last' = Last("refresh", TRUE, "")
  /\ UNCHANGED <<variant, rssConfig, categories, feedsByCategory, feeds, selectedCategory,
                 expandedSources, loadingFeeds, failedFeeds, loadedFeedsCount, isSorted,
                 isAddingCustomFeed, runs, fetches, started, customAdds, pureVars>>

\* the sidebar buttons: setSelectedCategory(null) and setSelectedCategory(category.id)
V1Select(categoryId) ==
  /\ variant = "v1"
  /\ categoryId \in {NullCat} \cup CategoryButtons
  /\ selectedCategory' = categoryId
  /\ last' = Last("categoryClick", FALSE, "")
  /\ UNCHANGED <<variant, rssConfig, categories, feedsByCategory, feeds, loading, error,
                 expandedSources, loadingFeeds, failedFeeds, loadedFeedsCount, isSorted,
                 isAddingCustomFeed, configPc, runs, fetches, started, customAdds, pureVars>>

NextV1 ==
  \/ \E f \in ConfigFailures : V1ConfigFailed(f)
  \/ \E c \in Configs : V1ConfigLoaded(c)
  \/ \E r \in V1Runs : \E p \in runs[r].pending :
       \E resp \in Responses(rssConfig.feeds[runs[r].feedConfigs[p]]) : V1FeedDone(r, p, resp)
  \/ V1Refresh
  \/ \E c \in {NullCat} \cup CategoryButtons : V1Select(c)
  \/ \E n \in DOMAIN groupedFeeds : AppToggleSource(n)
  \/ AppToggleAll


----------------------------------------------------------------------------
(* All components *)

Init == variant \in {"p0", "p2", "app", "v1"} /\ InitSys /\ arg = <<>> /\ ret = <<>>

Next == NextPage \/ NextApp \/ NextV1

Spec == Init /\ [][Next]_vars

----------------------------------------------------------------------------
(* Harness for utils.stripHtml: the input is any string of at most MaxLen  *)
(* characters; one step applies stripHtml to it, to its own output, and    *)
(* builds the item fetchRSSFeed makes of an entry with that description.   *)

Alphabet == {"<", ">", "a", " "}

Strings(n) == UNION {[1..k -> Alphabet] : k \in 0..n}

ApplyStripHtml ==
  /\ variant = "stripHtml"
  /\ ret = <<>>
  /\ ret' = <<stripHtml(arg),
              stripHtml(stripHtml(arg)),
              MapItem(Entry("L1", 1, arg), "", CustomFeedConfig, CustomCategory).description>>
  /\ UNCHANGED <<variant, sysVars, arg>>

InitStrip == variant = "stripHtml" /\ InitSys /\ arg \in Strings(MaxLen) /\ ret = <<>>

SpecStrip == InitStrip /\ [][ApplyStripHtml]_vars

----------------------------------------------------------------------------
(* Harness for fetchRSSFeed of part_000: the input is a parsed proxy answer *)
(* of any mix of the fields the branches read, a feed config with or        *)
(* without a title, and a category.                                         *)

E1 == [Entry("L1", 3, <<"<", "b", ">", "a">>) EXCEPT !.title = Undefined]
E2 == [Entry(Undefined, 0, <<>>) EXCEPT !.url = "L2", !.content = <<"a", " ">>]
E3 == Entry("L3", 2, <<"a">>)

EntryLists == {<<>>, <<E1>>, <<E2, E1>>, <<E3, E1, E2>>}

\* a value that is missing, an array or a single entry object
OneOrMany == {Missing, ObjectOf(E2), ObjectOf(E3)} \cup {ArrayOf(es) : es \in {<<>>, <<E1>>, <<E3, E2>>}}

\* the parsed answers: a top-level array, or an object with any of the fields;
\* items, where present, is an array, as in the formats the proxies produce
DataShapes ==
  {[NoData EXCEPT !.isArray = TRUE, !.arr = es] : es \in EntryLists}
  \cup {[NoData EXCEPT !.status = st, !.items = it, !.rssItem = ri, !.feedEntry = fe,
                       !.feedTitle = ft] :
          st \in {Undefined, "ok", "error"},
          it \in {Missing} \cup {ArrayOf(es) : es \in {<<>>, <<E1, E3>>}},
          ri \in OneOrMany, fe \in {Missing, ObjectOf(E1), ArrayOf(<<E2, E3>>)},
          ft \in {Undefined, "Feed"}}

FetchInputs ==
  [response : {HttpFail} \cup {Answer(d) : d \in DataShapes},
   feedConfig : {FeedConfig("f1", "n1", Tech), FeedConfig(Undefined, "n2", News)},
   category : {[id |-> CategoryId(Tech), name |-> Tech], CustomCategory}]

ApplyFetchRSSFeed ==
  /\ variant = "fetchRSSFeed"
  /\ ret = <<>>
  /\ ret' = <<fetchRSSFeed(arg.feedConfig, arg.category, arg.response)>>
  /\ UNCHANGED <<variant, sysVars, arg>>

InitFetch == variant = "fetchRSSFeed" /\ InitSys /\ arg \in FetchInputs /\ ret = <<>>

SpecFetch == InitFetch /\ [][ApplyFetchRSSFeed]_vars

----------------------------------------------------------------------------
(* Properties of the item lists *)

Page == variant \in {"p0", "p2"}

NoDupLinks(list) == \A i, j \in 1..Len(list) : i # j => list[i].link # list[j].link

\* C1: in the batched RSSPage, whatever addFeedsToCategory, clears and loads
\* (overlapping ones included) have run, no two items stored under one category
\* have the same link.
C1_NoDuplicateLinks ==
  Page => \A c \in DOMAIN feedsByCategory : NoDupLinks(feedsByCategory[c])

\* a feed has just delivered items and none of them is in any list: every one of
\* them had a link that was already stored
C1_Witness ==
  /\ Page
  /\ last.op = "feedDone" /\ last.ok
  /\ \E c \in DOMAIN feedsByCategory : feedsByCategory[c] # <<>>
  /\ \A c \in DOMAIN feedsByCategory :
       \A i \in 1..Len(feedsByCategory[c]) : feedsByCategory[c][i].feedName # last.name

\* C2: every item stored under feedsByCategory[c] carries category.id = c, so the
\* list displayed for the selected category holds only items of that category, also
\* when a response arrives after the user has switched to another category.
C2_ItemsUnderOwnCategory ==
  /\ \A c \in DOMAIN feedsByCategory :
       \A i \in 1..Len(feedsByCategory[c]) : feedsByCategory[c][i].category.id = c
  /\ selectedCategory # NullCat =>
       \A i \in 1..Len(currentFeeds) : currentFeeds[i].category.id = selectedCategory

\* a feed has just delivered items into the list of a category that is not the
\* selected one
C2_Witness ==
  /\ Page
  /\ last.op = "feedDone" /\ last.ok
  /\ selectedCategory # NullCat
  /\ \E c \in DOMAIN feedsByCategory \ {selectedCategory} :
       \E i \in 1..Len(feedsByCategory[c]) : feedsByCategory[c][i].feedName = last.name

\* C3: groupedFeeds is a partition of the displayed items by feedName: its keys are
\* the feed names on display, no group is empty, and each group is the displayed
\* list restricted to its key, in the displayed order.
C3_GroupsPartition ==
  LET list == currentFeeds
      groups == groupedFeeds
  IN  /\ DOMAIN groups = SourcesOf(list)
      /\ \A k \in DOMAIN groups :
           /\ groups[k] # <<>>
           /\ groups[k] = SelectSeq(list, LAMBDA feed : feed.feedName = k)

\* the displayed list interleaves two sources
C3_Witness ==
  \E i, j, k \in 1..Len(currentFeeds) :
    /\ i < j /\ j < k
    /\ currentFeeds[i].feedName = currentFeeds[k].feedName
    /\ currentFeeds[j].feedName # currentFeeds[i].feedName
    /\ Len(groupedFeeds[currentFeeds[i].feedName]) >= 2

----------------------------------------------------------------------------
(* Properties of loading *)

SortedNewestFirst(list) ==
  \A i \in 1..(Len(list) - 1) : list[i].pubDate >= list[i + 1].pubDate

\* list and other hold the same items, each as often
SameItems(list, other) ==
  /\ Len(list) = Len(other)
  /\ \A x \in Range(list) \cup Range(other) :
       Cardinality({i \in 1..Len(list) : list[i] = x})
         = Cardinality({i \in 1..Len(other) : other[i] = x})

\* C4: in src/src/App.tsx, when a run of loadFeedsForCategory for category c finishes,
\* also after an earlier overlapping run for c has finished, feedsByCategory[c] is
\* exactly the list that run produced (the items of its fulfilled feeds, newest
\* first), nothing of the earlier run is merged in, and no other category changes.
C4_LastRunOverwrites ==
  [][(variant = "app" /\ last'.op = "loadDone") =>
       LET c == last'.cat
           produced == CollectFeeds(last'.results)
       IN  /\ c \in DOMAIN feedsByCategory'
           /\ SameItems(feedsByCategory'[c], produced)
           /\ SortedNewestFirst(feedsByCategory'[c])
           /\ DOMAIN feedsByCategory' = DOMAIN feedsByCategory \cup {c}
           /\ \A k \in DOMAIN feedsByCategory \ {c} : feedsByCategory'[k] = feedsByCategory[k]]_vars

\* the second of two overlapping runs for one category has just finished with no
\* item, the first one had stored some: the list is empty
C4_Witness ==
  /\ variant = "app"
  /\ last.op = "loadDone" /\ last.ok
  /\ last.earlier # <<>>
  /\ feedsByCategory[last.cat] = <<>>

\* the feeds of a page run are taken in config order
InConfigOrder(run) ==
  \A a, b \in 1..Len(run.feedConfigs) : a < b => run.feedConfigs[a] < run.feedConfigs[b]

\* the number of batches of n feeds
Batches(n) == (n + BATCH_SIZE - 1) \div BATCH_SIZE

\* C5: batched loading starts the feeds of a category in config order in consecutive
\* batches of at most BATCH_SIZE; the feeds of batch k+1 are started only when the
\* delay after batch k has elapsed; no delay follows the last batch.
C5_BatchesInOrder ==
  \A r \in PageRuns :
    LET run == runs[r]
        n == Len(run.feedConfigs)
        k == Len(run.started)
    IN  /\ InConfigOrder(run)
        /\ run.started = [j \in 1..k |-> j]
        /\ k = Min(n, (run.elapsed + 1) * BATCH_SIZE)
        /\ run.pending \subseteq 1..k
        /\ run.pc = "delay" => k < n /\ run.delays = run.elapsed + 1
        /\ run.pc = "done" => k = n /\ run.delays = run.elapsed
        /\ run.delays < Batches(n) \/ n = 0

\* a run has started its second batch after one delay and awaits nothing more
C5_Witness ==
  \E r \in PageRuns :
    /\ runs[r].elapsed = 1
    /\ Len(runs[r].started) = BATCH_SIZE + 1
    /\ runs[r].pc = "done"
    /\ runs[r].delays = 1

----------------------------------------------------------------------------
(* Properties of failures *)

\* the fetches in flight: (run, feed) pairs
InFlight(rs) == UNION {{<<r, p>> : p \in rs[r].pending} : r \in 1..Len(rs)}

\* the title the config gives the feed called name
TitleOf(name) == (CHOOSE f \in Range(rssConfig.feeds) : f.name = name).title

LinksOf(list) == {list[i].link : i \in 1..Len(list)}

\* C6: the failure of one feed's fetch reaches nothing else: error keeps its value
\* (null during a load), the stored items stay, every other fetch in flight stays in
\* flight, and the batched component appends the feed's title to failedFeeds; the
\* feeds that do answer still have their items stored.
C6_FailureIsolated ==
  [][/\ (last'.op = "feedDone" /\ ~last'.ok) =>
          /\ error' = error
          /\ feedsByCategory' = feedsByCategory
          /\ feeds' = feeds
          /\ Cardinality(InFlight(runs')) = Cardinality(InFlight(runs)) - 1
          /\ Page => failedFeeds' = Append(failedFeeds, TitleOf(last'.name))
     /\ (last'.op = "feedDone" /\ last'.ok /\ Page) =>
          /\ error' = error
          /\ failedFeeds' = failedFeeds
          /\ \E c \in DOMAIN feedsByCategory' :
               LinksOf(EntriesOf([name |-> last'.name])) \subseteq LinksOf(feedsByCategory'[c])
     /\ last'.op = "loadDone" =>
          /\ error' = error
          /\ \A p \in DOMAIN last'.results :
               Range(last'.results[p].items)
                 \subseteq Range(IF variant = "v1" THEN feeds' ELSE feedsByCategory'[last'.cat])]_vars

\* a feed has just delivered its items after another feed of the load had failed
C6_Witness ==
  /\ Page
  /\ last.op = "feedDone" /\ last.ok
  /\ failedFeeds # <<>>
  /\ error = NoError
  /\ \E c \in DOMAIN feedsByCategory :
       \E i \in 1..Len(feedsByCategory[c]) :
         /\ feedsByCategory[c][i].feedName = last.name
         /\ TitleOf(last.name) \notin Range(failedFeeds)

\* C7: when loadCategoriesAndConfig fails on a network error or a non-OK status,
\* error is set, rssConfig stays null, categories stays empty and loading ends false;
\* and as long as rssConfig is null no run of loadFeedsForCategory has issued a fetch.
C7_ConfigFailure ==
  variant \in {"p0", "p2", "app"} =>
    /\ (last.op = "configFailed" /\ last.name \in {"network", "not-ok"}) =>
         /\ error # NoError
         /\ ~rssConfig.loaded
         /\ categories = <<>>
         /\ ~loading
    /\ ~rssConfig.loaded =>
         /\ fetches = 0
         /\ started = 0
         /\ PageRuns \cup AppRuns = {}

\* the config could not be loaded and the user has then asked for a refresh
C7_Witness ==
  /\ variant \in {"p0", "p2", "app"}
  /\ configPc = "done"
  /\ ~rssConfig.loaded
  /\ error # NoError
  /\ last.op = "refresh"

----------------------------------------------------------------------------
(* Properties of the source toggles *)

\* C10: a toggle of one source flips the membership of exactly that source in
\* expandedSources, leaves every other source, feedsByCategory and selectedCategory
\* as they were, and a second toggle of the same source gives back the first set.
C10_ToggleFlipsOne ==
  [][last'.op = "toggleSource" =>
       LET s == last'.name IN
       /\ s \in expandedSources' <=> s \notin expandedSources
       /\ expandedSources' \ {s} = expandedSources \ {s}
       /\ feedsByCategory' = feedsByCategory
       /\ feeds' = feeds
       /\ selectedCategory' = selectedCategory
       /\ ToggledSources(expandedSources', s) = expandedSources]_vars

\* an expanded source has just been collapsed while another one stays expanded
C10_Witness ==
  /\ last.op = "toggleSource" /\ last.ok
  /\ last.name \notin expandedSources
  /\ expandedSources # {}

----------------------------------------------------------------------------
(* Properties of the pure functions *)

\* the entries of the first response shape, in the order of priority, that the
\* answer has: { status: 'ok', items }, a top-level array, rss.channel.item,
\* feed.entry, { items }; a single item or entry object counts as one entry
EntriesOfShape(data) ==
  CASE data.status = "ok" /\ Truthy(data.items) -> data.items.val
    [] OTHER -> CASE data.isArray -> data.arr
                  [] OTHER -> CASE Truthy(data.rssItem) -> data.rssItem.val
                                [] OTHER -> CASE Truthy(data.feedEntry) -> data.feedEntry.val
                                              [] OTHER -> data.items.val

\* C8: for every supported response shape fetchRSSFeed of part_000 returns one item
\* per entry of the response, in the order of the response (a single item or entry
\* object gives one item, no entry gives null); every item has
\* feedName = feedConfig.title || feedConfig.name and the category passed in.
C8_Normalised ==
  (variant = "fetchRSSFeed" /\ ret # <<>>) =>
    LET out == ret[1]
        entries == IF arg.response.ok THEN EntriesOfShape(arg.response.data) ELSE <<>>
    IN  /\ out.isNull <=> entries = <<>>
        /\ Len(out.items) = Len(entries)
        /\ \A i \in 1..Len(out.items) :
             /\ out.items[i].link = Or(entries[i].link, Or(entries[i].url, NoLink))
             /\ out.items[i].title = Or(entries[i].title, NoTitle)
             /\ out.items[i].feedName = Or(arg.feedConfig.title, arg.feedConfig.name)
             /\ out.items[i].category = arg.category
             /\ ~HasTag(out.items[i].description)

\* an answer with a single rss.channel.item object and a feed.entry array, for a
\* feed without a title, has given the one item of rss.channel.item
C8_Witness ==
  /\ variant = "fetchRSSFeed" /\ ret # <<>>
  /\ arg.response.ok
  /\ arg.response.data.status # "ok"
  /\ arg.response.data.rssItem.kind = "object"
  /\ arg.response.data.feedEntry.kind = "array"
  /\ arg.feedConfig.title = Undefined
  /\ Len(ret[1].items) = 1
  /\ ret[1].items[1].feedName = arg.feedConfig.name

\* C9: the result of stripHtml has no '<' with a '>' after it, stripHtml of the
\* result is the result, and so is the description fetchRSSFeed of part_000 stores
\* tag-free.
C9_StripHtml ==
  (variant = "stripHtml" /\ ret # <<>>) =>
    /\ ~HasTag(ret[1])
    /\ ret[2] = ret[1]
    /\ ~HasTag(ret[3])

\* stripHtml has removed a tag that has a '<' inside and kept some text
C9_Witness ==
  /\ variant = "stripHtml" /\ ret # <<>>
  /\ \E i \in 1..(Len(arg) - 1) : arg[i] = "<" /\ arg[i + 1] = "<"
  /\ HasTag(arg)
  /\ ret[1] # <<>>
  /\ Len(ret[1]) < Len(arg)

----------------------------------------------------------------------------
(* Properties of the display while loading *)

\* C11: in the batched RSSPage, while a load of the selected category is still in
\* progress, the items of the feeds that have already arrived are on display.
C11_LiveDisplay ==
  (Page /\ \E r \in PageRuns : runs[r].cat = selectedCategory) =>
    DisplayedItems = currentFeeds

\* C12: addFeedsToCategory(c, newFeeds) keeps the previous list of c as a prefix
\* of the new list, appends the items of newFeeds in their order, leaving out every
\* item whose link is already present, and changes no other category's list.
C12_AppendAtEnd ==
  [][(Page /\ last'.op \in {"feedDone", "customDone"} /\ last'.ok) =>
       LET c == last'.cat
           newFeeds == last'.results
           old == FeedsOf(feedsByCategory, c)
           new == feedsByCategory'[c]
           kept == SelectSeq([i \in 1..Len(newFeeds) |-> i],
                             LAMBDA i : /\ newFeeds[i].link \notin LinksOf(old)
                                        /\ \A j \in 1..(i - 1) : newFeeds[j].link # newFeeds[i].link)
       IN  /\ Len(new) = Len(old) + Len(kept)
           /\ SubSeq(new, 1, Len(old)) = old
           /\ \A k \in 1..Len(kept) : new[Len(old) + k] = newFeeds[kept[k]]
           /\ DOMAIN feedsByCategory' = DOMAIN feedsByCategory \cup {c}
           /\ \A k \in DOMAIN feedsByCategory \ {c} : feedsByCategory'[k] = feedsByCategory[k]]_vars

\* a feed has just delivered items to a list that held another feed's items: some
\* are appended at the end, one is left out for its link
C12_Witness ==
  /\ Page
  /\ last.op = "feedDone" /\ last.ok
  /\ LET list == feedsByCategory[last.cat] IN
     /\ list[1].feedName # last.name
     /\ list[Len(list)].feedName = last.name
     /\ Len(last.results) > Cardinality({i \in 1..Len(list) : list[i].feedName = last.name})

\* C13: in every state in which a feed fetch started by a category load has not
\* yet completed, the loading flag is on: isLoading in the batched RSSPage, loading
\* in src/src/App.tsx.
C13_LoadingAccurate ==
  (\E r \in PageRuns \cup AppRuns : runs[r].pending # {}) =>
    IF Page THEN isLoading ELSE loading

----------------------------------------------------------------------------
(* Properties of the batches *)

\* C14 as claimed: during a single run of loadFeedsForCategory of the batched
\* RSSPage, the number of feed fetches in flight never exceeds BATCH_SIZE.
C14_AtMostBatchSize ==
  \A r \in PageRuns : Cardinality(runs[r].pending) <= BATCH_SIZE

\* C14 as amended: the fetches of a run are started in batches of at most BATCH_SIZE,
\* one more batch each time the delay has elapsed, so the number in flight never
\* exceeds BATCH_SIZE times the number of batches started.
C14_AtMostBatchSizePerBatch ==
  \A r \in PageRuns :
    /\ Cardinality(runs[r].pending) <= BATCH_SIZE * (runs[r].elapsed + 1)
    /\ Len(runs[r].started) <= BATCH_SIZE * (runs[r].elapsed + 1)

\* the second batch has started while all fetches of the first are in flight
C14_Witness ==
  \E r \in PageRuns :
    /\ runs[r].elapsed = 1
    /\ Cardinality(runs[r].pending) = BATCH_SIZE + 1

----------------------------------------------------------------------------
(* Properties of the custom category *)

\* C15: in part_000 the items added through a custom RSS URL stay in
\* feedsByCategory['custom'] through every later step (category clicks and
\* refreshes included), and a click on the custom category starts no fetch.
C15_CustomFeedsStay ==
  [][(variant = "p0" /\ FeedsOf(feedsByCategory, CustomId) # <<>>) =>
       /\ Len(FeedsOf(feedsByCategory', CustomId)) >= Len(feedsByCategory[CustomId])
       /\ SubSeq(FeedsOf(feedsByCategory', CustomId), 1, Len(feedsByCategory[CustomId]))
            = feedsByCategory[CustomId]
       /\ (last'.op = "categoryClick" /\ selectedCategory' = CustomId) =>
            (runs' = runs /\ fetches' = fetches)]_vars

----------------------------------------------------------------------------
(* Properties of sorting *)

\* C16: in the batched RSSPage, handleSortByTime with a category selected replaces
\* that category's list by a permutation of the same items in order of
\* non-increasing pubDate, leaves every other category's list unchanged, and sets
\* isSorted to true.
C16_SortByTime ==
  [][(Page /\ last'.op = "sortByTime" /\ selectedCategory # NullCat) =>
       LET c == selectedCategory IN
       /\ isSorted'
       /\ c \in DOMAIN feedsByCategory'
       /\ SameItems(feedsByCategory'[c], FeedsOf(feedsByCategory, c))
       /\ SortedNewestFirst(feedsByCategory'[c])
       /\ \A k \in DOMAIN feedsByCategory \ {c} :
            k \in DOMAIN feedsByCategory' /\ feedsByCategory'[k] = feedsByCategory[k]]_vars

----------------------------------------------------------------------------
(* Properties of the cache of src/src/App.tsx *)

\* C17: in src/src/App.tsx, once handleRefresh has completed, feedsByCategory has a
\* freshly fetched entry for the selected category or, with nothing selected
\* ('all'), for every category.
C17_RefreshReloads ==
  [][(variant = "app" /\ rssConfig.loaded) =>
       \* handleRefresh has run to its end within the step
       /\ (last'.op = "refresh" /\ ~last'.ok) =>
            IF selectedCategory = NullCat
            THEN \A c \in CategoryButtons : c \in DOMAIN feedsByCategory'
            ELSE selectedCategory \in DOMAIN feedsByCategory'
       \* the load handleRefresh awaits has run to its end
       /\ last'.op = "loadDone" => last'.cat \in DOMAIN feedsByCategory']_vars

\* C18: in src/src/App.tsx a click on a category that has an entry in
\* feedsByCategory starts no run and no fetch and leaves feedsByCategory, loading
\* and error as they were; the category becomes the selected one and
\* expandedSources becomes the set of feed names of the cached list.
C18_CachedClick ==
  [][(variant = "app" /\ last'.op = "categoryClick"
        /\ selectedCategory' \in DOMAIN feedsByCategory) =>
       LET list == feedsByCategory[selectedCategory']
       IN  /\ runs' = runs
           /\ fetches' = fetches
           /\ started' = started
           /\ feedsByCategory' = feedsByCategory
           /\ loading' = loading
           /\ error' = error
           /\ expandedSources' = {list[i].feedName : i \in 1..Len(list)}
           /\ UNCHANGED <<rssConfig, categories, feeds, loadingFeeds, failedFeeds,
                          loadedFeedsCount, isSorted, isAddingCustomFeed>>]_vars

\* a click on another category came back to a cached one: the list of the
\* category is shown from the cache while the collapsed state before the click
\* was different
C18_Witness ==
  /\ variant = "app"
  /\ last.op = "categoryClick"
  /\ ~last.ok
  /\ selectedCategory \in DOMAIN feedsByCategory
  /\ Cardinality(DOMAIN feedsByCategory) = 2
  /\ feedsByCategory[selectedCategory] # <<>>
  /\ expandedSources = SourcesOf(feedsByCategory[selectedCategory])

\* a cached category with an empty list (every feed of it failed) was clicked
C18_WitnessEmpty ==
  /\ variant = "app"
  /\ last.op = "categoryClick"
  /\ selectedCategory \in DOMAIN feedsByCategory
  /\ feedsByCategory[selectedCategory] = <<>>

\* C19: in src/src/App.tsx every source group of the displayed category is
\* expanded by default: a category click or the end of a load that leaves no load
\* in flight, taken in a state where no displayed group is collapsed, leaves
\* every displayed group in expandedSources.
C19_ExpandedByDefault ==
  [][(variant = "app" /\ last'.op \in {"categoryClick", "loadDone"}
        /\ AppRuns' = {}
        /\ DOMAIN groupedFeeds \subseteq expandedSources) =>
       DOMAIN groupedFeeds' \subseteq expandedSources']_vars

\* C20: toggleAllSources, called while the source groups are on screen, makes
\* expandedSources the set of the displayed groups when one of them is not
\* expanded, and the empty set when all of them are expanded.
C20_ToggleAll ==
  [][(last'.op = "toggleAll" /\ (IF Page THEN ListShown ELSE ~loading)) =>
       IF DOMAIN groupedFeeds \subseteq expandedSources
       THEN expandedSources' = {}
       ELSE expandedSources' = DOMAIN groupedFeeds]_vars

----------------------------------------------------------------------------
(* Properties of the category list and of the fetches of a run *)

\* C21: no two entries of categories have the same id, in part_000 none has the
\* id of the built-in custom category, and every run of loadFeedsForCategory
\* fetches only feeds whose config category name is the name of its category.
C21_UniqueCategoryIds ==
  (Page \/ variant = "app") =>
  /\ \A i, j \in 1..Len(categories) : categories[i].id = categories[j].id => i = j
  /\ variant = "p0" => \A i \in 1..Len(categories) : categories[i].id # CustomId
  /\ \A r \in PageRuns \cup AppRuns :
       \A k \in 1..Len(runs[r].feedConfigs) :
         rssConfig.feeds[runs[r].feedConfigs[k]].category = runs[r].category.name

\* the positions in the config of the feeds whose category maps to categoryId
MatchingFeeds(categoryId) ==
  {f \in 1..Len(rssConfig.feeds) : CategoryId(rssConfig.feeds[f].category) = categoryId}

\* the feeds of the config a run has issued a fetch for, one entry per fetch
FetchedBy(run) == [k \in 1..Len(run.started) |-> run.feedConfigs[run.started[k]]]

\* C22: a run of loadFeedsForCategory fetches each feed of the config whose
\* category maps to the requested id exactly once: no feed is fetched twice, only
\* matching feeds are fetched, every fetch in flight is one the run has issued, and
\* once the run has issued its last batch every matching feed has been fetched.
\* The end of a fetch, failed or not, issues no new fetch: the number of fetches
\* in flight goes down by one.
C22_NoRetry ==
  /\ [](\A r \in PageRuns \cup AppRuns :
          LET run == runs[r]
              fetched == FetchedBy(run)
          IN  /\ \A a, b \in 1..Len(fetched) : fetched[a] = fetched[b] => a = b
              /\ Range(fetched) \subseteq MatchingFeeds(run.cat)
              /\ {run.feedConfigs[p] : p \in run.pending} \subseteq Range(fetched)
              /\ run.pc # "delay" => Range(fetched) = MatchingFeeds(run.cat))
  /\ [][((Page \/ variant = "app") /\ last'.op \in {"feedDone", "loadDone"}) =>
          Cardinality(InFlight(runs')) = Cardinality(InFlight(runs)) - 1]_vars

\* a run of two batches has issued all its fetches, the fetch of one feed has just
\* failed, and another fetch of the run is still in flight
C22_Witness ==
  /\ Page
  /\ last.op = "feedDone"
  /\ ~last.ok
  /\ \E r \in PageRuns :
       /\ runs[r].pc = "done"
       /\ Len(runs[r].started) = BATCH_SIZE + 1
       /\ runs[r].pending # {}
       /\ \E p \in 1..Len(runs[r].feedConfigs) :
            /\ rssConfig.feeds[runs[r].feedConfigs[p]].name = last.name
            /\ p \notin runs[r].pending

====
